---------------------------- MODULE Spec2Model ----------------------------
(***************************************************************************)
(* A model of cocotb's AMBA bus engines (cocotb/drivers/amba.py and        *)
(* cocotb/monitors/amba.py): the AXI4-Lite master, the memory backed AXI4  *)
(* slave and the AXI4-Stream master.                                       *)
(*                                                                         *)
(* Time is the simulator's: every clock cycle has two phases.  In phase    *)
(* "edge" the coroutines that waited for RisingEdge(clock) run, each up to *)
(* its next yield; a signal they read there still has the value it had in  *)
(* the cycle that just ended, and what they write is what the bus shows in *)
(* the cycle that starts.  Then the partner drives its own signals and the *)
(* values settle; in phase "ro" the coroutines that waited for ReadOnly()  *)
(* run and sample the settled values.  woken is the set of coroutines the  *)
(* fired trigger resumes; the order in which they run is the scheduler's   *)
(* and every order is explored.                                            *)
(***************************************************************************)
EXTENDS Integers, Sequences, FiniteSets, TLC

VARIABLES
    phase,              \* "edge" | "ro"
    woken,              \* coroutines still to run in this phase
    \* ---- AXI4-Lite master -------------------------------------------
    lbus,               \* the AXI4-Lite bus lines
    write_address_busy, \* Lock: [locked, pending]
    write_data_busy,    \* Lock
    read_address_busy,  \* Lock
    wargs,              \* write call -> [address, value, byte_enable]
    mpc,                \* write call -> position of write()
    apc,                \* write call -> position of _send_write_address()
    dpc,                \* write call -> position of _send_write_data()
    arem,               \* write call -> delay cycles left in the address task
    drem,               \* write call -> delay cycles left in the data task
    wresult,            \* write call -> BRESP sampled (line 295)
    wret,               \* write call -> how the call ended
    rargs,              \* read call -> [address]
    rpc,                \* read call -> position of read()
    rsample,            \* read call -> [data, result] sampled (lines 341-342)
    rret,               \* read call -> how the call ended
    \* ---- AXI4 slave -------------------------------------------------
    sbus,               \* the AXI4 bus lines
    memory,             \* self._memory, the backing memory (a byte sequence)
    big_endian,         \* self.big_endian
    wdata_bytes,        \* width of the WDATA line, in bytes
    memory_kind,        \* the type of the buffer the caller handed in
    sw_pc,              \* position of _write_data()
    sw,                 \* locals of _write_data()
    sr_pc,              \* position of _read_data()
    sr,                 \* locals of _read_data()
    master,             \* the bus master driving the slave: what it has left to do
    hs,                 \* handshakes the bus showed at the last edge
    wlog,               \* the write burst observed: memory before, beats consumed
    rlog,               \* the read burst observed: words loaded, beats transferred
    \* ---- AXI4-Stream master -----------------------------------------
    tprofile,           \* line name -> the bus has the line (hasattr)
    tdata_len,          \* len(self.bus.TDATA), in bits
    tbus,               \* the AXI4-Stream bus lines
    st_pc,              \* position of _driver_send()
    st_args,            \* arguments of the running _driver_send()
    frame,              \* the last _send_string() call: payload, beats, outcome
    tlog,               \* beats driven on the bus since the last call
    tcalls,             \* calls the test has made
    tacc,               \* since the last call: beats the bus transferred, stalls
    \* ---- AXI4-Stream monitor ----------------------------------------
    mon_pc,             \* position of _monitor_recv()
    mrecv               \* since the last call: elements handed to _recv()

clockVars == <<phase, woken>>
lockVars  == <<write_address_busy, write_data_busy, read_address_busy>>
writeVars == <<wargs, mpc, apc, dpc, arem, drem, wresult, wret>>
readVars  == <<rargs, rpc, rsample, rret>>
liteVars  == <<lbus, lockVars, writeVars, readVars>>

monVars == <<mon_pc, mrecv>>

streamVars == <<tprofile, tdata_len, tbus, st_pc, st_args, frame, tlog, tcalls,
                tacc, monVars>>

slaveVars == <<sbus, memory, big_endian, wdata_bytes, memory_kind, sw_pc, sw, sr_pc, sr,
               master, hs, wlog, rlog>>

\* what an action of the AXI4-Lite master leaves alone, and of the slave
notLite   == <<slaveVars, streamVars>>
notSlave  == <<liteVars, streamVars>>
notStream == <<liteVars, slaveVars>>

vars == <<clockVars, liteVars, slaveVars, streamVars>>

(***************************************************************************)
(* Bounds of the model.                                                    *)
(***************************************************************************)
MaxLatency == 1         \* address_latency, data_latency in 0..MaxLatency

\* what the tests write: (address, value, byte_enable)
WriteInputs == {[address |-> 16, value |-> 1, byte_enable |-> 15],
                [address |-> 32, value |-> 2, byte_enable |-> 15]}
\* what the tests read
ReadInputs == {16, 32}

WCalls == {"w1", "w2"}  \* concurrent write() calls on one instance
RCalls == {"r1", "r2"}  \* concurrent read() calls on one instance
Resps  == {0, 2}        \* response codes the partner answers: OKAY, SLVERR
Bit    == {0, 1}

NoArgs == [address |-> 0, value |-> 0, byte_enable |-> 0]
NoRet  == [kind |-> "none", address |-> 0, value |-> 0]
NoSample == [data |-> 0, result |-> 0]
NotSampled == -1

(***************************************************************************)
(* cocotb.triggers.Lock, as the master uses it: a binary lock whose        *)
(* waiters are resumed one at a time, in the order they asked.             *)
(***************************************************************************)
FreeLock == [locked |-> FALSE, pending |-> <<>>]

\* acquire() by coroutine t: taken at once when free, else t queues
Acquire(lock, t) ==
    IF lock.locked THEN [lock EXCEPT !.pending = Append(@, t)]
                   ELSE [lock EXCEPT !.locked = TRUE]

\* release(): the lock passes to the first waiter, or becomes free
Release(lock) ==
    IF lock.pending = <<>> THEN [lock EXCEPT !.locked = FALSE]
                           ELSE [lock EXCEPT !.pending = Tail(@)]

\* the coroutines release() resumes
Released(lock) ==
    IF lock.pending = <<>> THEN {} ELSE {Head(lock.pending)}

(***************************************************************************)
(* AXI4LiteMaster.__init__                                                 *)
(***************************************************************************)
LiteBusInit ==
    [AWVALID |-> 0, AWADDR |-> 0, WVALID |-> 0, WDATA |-> 0, WSTRB |-> 0,
     ARVALID |-> 0, ARADDR |-> 0, BREADY |-> 1, RREADY |-> 1,
     \* the partner's lines
     AWREADY |-> 0, WREADY |-> 0, BVALID |-> 0, BRESP |-> 0,
     ARREADY |-> 0, RVALID |-> 0, RDATA |-> 0, RRESP |-> 0]

LiteInit ==
    /\ lbus = LiteBusInit
    /\ write_address_busy = FreeLock
    /\ read_address_busy = FreeLock
    /\ write_data_busy = FreeLock
    /\ wargs = [c \in WCalls |-> NoArgs]
    /\ mpc = [c \in WCalls |-> "idle"]
    /\ apc = [c \in WCalls |-> "none"]
    /\ dpc = [c \in WCalls |-> "none"]
    /\ arem = [c \in WCalls |-> 0]
    /\ drem = [c \in WCalls |-> 0]
    /\ wresult = [c \in WCalls |-> NotSampled]
    /\ wret = [c \in WCalls |-> NoRet]
    /\ rargs = [c \in RCalls |-> NoArgs]
    /\ rpc = [c \in RCalls |-> "idle"]
    /\ rsample = [c \in RCalls |-> NoSample]
    /\ rret = [c \in RCalls |-> NoRet]

ClockInit ==
    /\ phase = "edge"
    /\ woken = {}

(***************************************************************************)
(* AXI4Slave: the bytes of the backing memory.  self._memory is a Python   *)
(* mutable byte sequence; byte j of the memory is memory[j + 1].           *)
(***************************************************************************)
MaxLen    == 2          \* burst lengths 1..MaxLen (AxLEN in 0..MaxLen-1)
MaxBursts == 2          \* address requests the bus master issues
MemBytes  == 4          \* capacity of the backing memory at construction

Min(a, b) == IF a < b THEN a ELSE b
Max(a, b) == IF a < b THEN b ELSE a

RECURSIVE Pow(_, _)
Pow(b, e) == IF e = 0 THEN 1 ELSE b * Pow(b, e - 1)

\* memory[st:end]: a slice, its indices clipped to the sequence
Slice(mem, st, end) ==
    LET s == Min(st, Len(mem))
        e == Max(Min(end, Len(mem)), s)
    IN SubSeq(mem, s + 1, e)

\* memory[st:end] = xs: the slice is replaced by xs, whatever the length of xs
SliceAssign(mem, st, end, xs) ==
    LET s == Min(st, Len(mem))
        e == Max(Min(end, Len(mem)), s)
    IN SubSeq(mem, 1, s) \o xs \o SubSeq(mem, e + 1, Len(mem))

(***************************************************************************)
(* The buffer is the caller's: line 451 assigns a list to a slice of it    *)
(* and line 507 calls .tostring() on a slice of it.                        *)
(*   "list"     list or bytearray: the slice is replaced, whatever the     *)
(*              length of the list; a slice has no .tostring()             *)
(*   "array"    array.array: only an array may be assigned to a slice      *)
(*   "ndarray"  array of bytes of fixed shape: the list is broadcast to    *)
(*              the slice, which takes a list of one byte or of as many    *)
(*              bytes as the slice has                                     *)
(***************************************************************************)
MemoryKinds == {"list", "array", "ndarray"}

\* line 451 raises (TypeError on an array.array, ValueError on an ndarray)
StoreRaises(kind, mem, st, end, xs) ==
    \/ kind = "array"
    \/ kind = "ndarray" /\ Len(xs) # 1 /\ Len(xs) # Len(Slice(mem, st, end))

\* line 451: self._memory[_st:_end] = _memrange
Store(kind, mem, st, end, xs) ==
    IF kind = "list" THEN SliceAssign(mem, st, end, xs)
    ELSE LET s == Min(st, Len(mem))
             e == Max(Min(end, Len(mem)), s)
         IN [j \in 1..Len(mem) |->
                IF s < j /\ j <= e
                THEN (IF Len(xs) = 1 THEN xs[1] ELSE xs[j - s])
                ELSE mem[j]]

\* line 507 raises (AttributeError: no .tostring() on a list or bytearray)
LoadRaises(kind) == kind = "list"

\* int.to_bytes(n, byteorder='little')
ToBytesLittle(x, n) == [i \in 1..n |-> (x \div Pow(256, i - 1)) % 256]

RECURSIVE FromBytesLittle(_)
\* int.from_bytes(bs, byteorder='little')
FromBytesLittle(bs) ==
    IF bs = <<>> THEN 0 ELSE Head(bs) + 256 * FromBytesLittle(Tail(bs))

RECURSIVE FromBytesBig(_)
\* int.from_bytes(bs, byteorder='big')
FromBytesBig(bs) ==
    IF bs = <<>> THEN 0
    ELSE FromBytesBig(SubSeq(bs, 1, Len(bs) - 1)) * 256 + bs[Len(bs)]

\* _size_to_bytes_in_beat returns None for AxSIZE >= 7
NoBytes == 0

\* lines 389-392
SizeToBytesInBeat(AxSIZE) == IF AxSIZE < 7 THEN Pow(2, AxSIZE) ELSE NoBytes

\* lines 439-441 and 501-503: the memory range of the next beat
BeatStart(addr, burst_length, burst_count, bytes_in_beat) ==
    addr + (burst_length - burst_count) * bytes_in_beat
BeatEnd(addr, burst_length, burst_count, bytes_in_beat) ==
    addr + ((burst_length - burst_count) + 1) * bytes_in_beat

\* lines 437-445: the bits of WDATA, as an unsigned integer, to len(bits)//8
\* bytes, byteorder 'little' whatever self.big_endian is
WriteBeatBytes(word, width, big) == ToBytesLittle(word, width)

\* lines 504-507: the bytes of the slice to an integer, in the byte order of
\* self.big_endian
ReadBeatInteger(bs, big) == IF big THEN FromBytesBig(bs) ELSE FromBytesLittle(bs)

\* lines 481, 507-508: the BinaryValue of bytes_in_beat*8 bits that carries
\* the integer to RDATA
ReadBeatWord(x, bytes_in_beat) == x % Pow(256, bytes_in_beat)

(***************************************************************************)
(* AXI4Slave.__init__ (lines 363-387): the lines' first values, and both   *)
(* responders forked; each runs to its first yield ReadOnly() (402, 466).  *)
(***************************************************************************)
SlaveBusInit ==
    [ARREADY |-> 1, RVALID |-> 0, RLAST |-> 0, AWREADY |-> 1, WREADY |-> 0,
     BVALID |-> 0, RDATA |-> 0,
     \* the bus master's lines
     AWVALID |-> 0, AWADDR |-> 0, AWLEN |-> 0, AWSIZE |-> 0,
     WVALID |-> 0, WDATA |-> 0,
     ARVALID |-> 0, ARADDR |-> 0, ARLEN |-> 0, ARSIZE |-> 0, RREADY |-> 0]

NoBurst == [addr |-> 0, burst_length |-> 0, bytes_in_beat |-> 0, burst_count |-> 0]

\* the memory the test hands to the slave
MemoryInit == [i \in 1..MemBytes |-> 160 + (i - 1)]

SlaveConstructed(big, width, kind) ==
    /\ sbus = SlaveBusInit
    /\ memory = MemoryInit
    /\ big_endian = big
    /\ wdata_bytes = width
    /\ memory_kind = kind
    /\ sw_pc = "aw_ro"
    /\ sw = NoBurst
    /\ sr_pc = "ar_ro"
    /\ sr = NoBurst
    /\ master = [bursts |-> 0, w_left |-> 0]
    /\ hs = [aw |-> FALSE, w |-> FALSE, ar |-> FALSE]
    /\ wlog = [mem0 |-> <<>>, beats |-> <<>>, done |-> FALSE]
    /\ rlog = [loaded |-> <<>>, xfer |-> <<>>, done |-> FALSE, fresh |-> FALSE]

DataWidths == {1, 2}    \* widths of the WDATA line, in bytes

SlaveInit ==
    \E big \in BOOLEAN, width \in DataWidths, kind \in MemoryKinds :
        SlaveConstructed(big, width, kind)

\* the slave of a test bench that drives only the master
SlaveParked == SlaveConstructed(FALSE, 1, "ndarray")

(***************************************************************************)
(* AXI4StreamMaster.  The bus profile says which optional lines the bus    *)
(* has; TVALID is always there.  A payload is a sequence of bytes, a mask  *)
(* (TSTRB, TKEEP) a sequence of bits, the leftmost first.  An              *)
(* AXI4StreamMonitor on the same bus is constructed with it: its           *)
(* _monitor_recv() is forked and waits at its first yield clkedge (52).    *)
(***************************************************************************)
MaxPayload == 3         \* payloads of 0..MaxPayload bytes
MaxCalls   == 2         \* calls the test makes on the stream master

StreamLines == {"TREADY", "TDATA", "TSTRB", "TKEEP", "TLAST"}
TDataLens == {8, 16}    \* len(self.bus.TDATA)

S == "s"                \* the coroutine _driver_send()
M == "m"                \* the coroutine _monitor_recv()

Has(line) == tprofile[line]         \* hasattr(self.bus, line)

Ones(k)  == [i \in 1..k |-> 1]      \* "1" * k
Zeros(k) == [i \in 1..k |-> 0]      \* "0" * k

NoData == <<>>          \* no data on the line (all "x", lines 64-66)
NoMask == <<>>          \* strb = None, keep = None (158, 161)
NoLast == -1            \* last = None (164)

\* line 157: n = int((len(self.bus.TDATA) + 7) / 8)
BytesPerBeat == (tdata_len + 7) \div 8

\* len(self.bus.TSTRB), len(self.bus.TKEEP): one bit for each byte of TDATA
MaskLen == tdata_len \div 8

\* lines 62-75
StreamBusInit ==
    [TVALID |-> 0,
     TDATA |-> NoData,
     TKEEP |-> IF Has("TKEEP") THEN Ones(MaskLen) ELSE NoMask,
     TSTRB |-> IF Has("TSTRB") THEN Ones(MaskLen) ELSE NoMask,
     TLAST |-> 0,
     \* the receiver's line
     TREADY |-> 0]

NoSend == [data |-> NoData, strb |-> NoMask, keep |-> NoMask, last |-> NoLast,
           sync |-> FALSE]
NoFrame == [payload |-> <<>>, beats |-> <<>>, outcome |-> "none"]
\* nothing transferred on the bus, no cycle with TVALID high and TREADY low
NoTransfer == [beats |-> <<>>, stalled |-> FALSE]

StreamConstructed(profile, len) ==
    /\ tprofile = profile
    /\ tdata_len = len
    /\ tbus = StreamBusInit
    /\ st_pc = "idle"
    /\ st_args = NoSend
    /\ frame = NoFrame
    /\ tlog = <<>>
    /\ tcalls = 0
    /\ tacc = NoTransfer
    /\ mon_pc = "edge"
    /\ mrecv = <<>>

\* lines 49-81; a bus without TDATA has no data width
StreamInit ==
    \E profile \in [StreamLines -> BOOLEAN], len \in TDataLens \cup {0} :
        /\ profile["TDATA"] <=> len # 0
        /\ StreamConstructed(profile, len)

\* the stream master of a test bench that drives another engine
StreamParked == StreamConstructed([l \in StreamLines |-> TRUE], 8)

(***************************************************************************)
(* AXI4LiteMaster._send_write_address (lines 213-232).  Positions:         *)
(*   "lock"   waiting in acquire() (218)     "delay"  in the delay loop    *)
(*   "ro"     at yield ReadOnly() (226)      "edge"   at RisingEdge (229)  *)
(*   "fin"    at RisingEdge (230), AWREADY seen        "finished"          *)
(***************************************************************************)
AddrHolding == {"delay", "ro", "edge", "fin"}  \* between acquire and release
AddrAsserted == {"ro", "edge", "fin"}          \* AWVALID driven, not yet lowered

\* lines 222-223
DriveAddress(bus, a) == [bus EXCEPT !.AWADDR = a, !.AWVALID = 1]

\* lines 219-226, with the lock held: the delay loop, then the lines driven
SendWriteAddressBegin(bus, a, delay) ==
    IF delay > 0 THEN [bus |-> bus, pc |-> "delay"]
                 ELSE [bus |-> DriveAddress(bus, a), pc |-> "ro"]

\* a task that drives the address channel without taking its lock
SendWriteAddressStartNoLock(c, lock, bus, a, delay) ==
    [lock |-> lock] @@ SendWriteAddressBegin(bus, a, delay)

\* lines 218-226: acquire(), then on to the first suspension
SendWriteAddressStart(c, lock, bus, a, delay) ==
    IF lock.locked
    THEN [lock |-> Acquire(lock, c), bus |-> bus, pc |-> "lock"]
    ELSE [lock |-> Acquire(lock, c)] @@ SendWriteAddressBegin(bus, a, delay)

(***************************************************************************)
(* AXI4LiteMaster._send_write_data (lines 234-252), the same positions.    *)
(***************************************************************************)
DataHolding == {"delay", "ro", "edge", "fin"}
DataAsserted == {"ro", "edge", "fin"}

\* lines 241-243
DriveData(bus, v, be) == [bus EXCEPT !.WDATA = v, !.WVALID = 1, !.WSTRB = be]

\* lines 238-246, with the lock held
SendWriteDataBegin(bus, v, be, delay) ==
    IF delay > 0 THEN [bus |-> bus, pc |-> "delay"]
                 ELSE [bus |-> DriveData(bus, v, be), pc |-> "ro"]

\* a task that drives the data channel without taking its lock
SendWriteDataStartNoLock(c, lock, bus, v, be, delay) ==
    [lock |-> lock] @@ SendWriteDataBegin(bus, v, be, delay)

\* lines 237-246: acquire(), then on to the first suspension
SendWriteDataStart(c, lock, bus, v, be, delay) ==
    IF lock.locked
    THEN [lock |-> Acquire(lock, c), bus |-> bus, pc |-> "lock"]
    ELSE [lock |-> Acquire(lock, c)] @@ SendWriteDataBegin(bus, v, be, delay)

(***************************************************************************)
(* AXI4LiteMaster.write (lines 254-306).  Positions of write():            *)
(*   "sync" at RisingEdge (278)      "join_addr" in c_addr.join() (287)    *)
(*   "join_data" in c_data.join() (289)     "resp_ro" at ReadOnly (293)    *)
(*   "resp_edge" at RisingEdge (297)        "resp_fin" at RisingEdge (299) *)
(*   "done" returned or raised                                             *)
(***************************************************************************)
Main(c) == <<c, "main">>
Addr(c) == <<c, "addr">>
Data(c) == <<c, "data">>

RespWait == {"resp_ro", "resp_edge", "resp_fin"}

\* lines 280-289: both tasks are forked, each runs to its first suspension,
\* then write() waits in c_addr.join()
WriteFork(c) ==
    LET a == SendWriteAddressStart(c, write_address_busy, lbus,
                                   wargs'[c].address, arem'[c])
        d == SendWriteDataStart(c, write_data_busy, a.bus,
                                wargs'[c].value, wargs'[c].byte_enable, drem'[c])
    IN /\ write_address_busy' = a.lock
       /\ write_data_busy' = d.lock
       /\ lbus' = d.bus
       /\ apc' = [apc EXCEPT ![c] = a.pc]
       /\ dpc' = [dpc EXCEPT ![c] = d.pc]
       /\ mpc' = [mpc EXCEPT ![c] = "join_addr"]

\* a test calls write(address, value, byte_enable, address_latency,
\* data_latency, sync) (lines 255-278)
WriteCall(c) ==
    /\ phase = "edge"
    /\ mpc[c] \in {"idle", "done"}
    /\ \E in \in WriteInputs,
          al \in 0..MaxLatency, dl \in 0..MaxLatency, sync \in BOOLEAN :
          /\ wargs' = [wargs EXCEPT ![c] = in]
          /\ arem' = [arem EXCEPT ![c] = al]
          /\ drem' = [drem EXCEPT ![c] = dl]
          /\ IF sync
             THEN /\ mpc' = [mpc EXCEPT ![c] = "sync"]
                  /\ apc' = [apc EXCEPT ![c] = "none"]
                  /\ dpc' = [dpc EXCEPT ![c] = "none"]
                  /\ UNCHANGED <<lbus, write_address_busy, write_data_busy>>
             ELSE WriteFork(c)
    /\ wresult' = [wresult EXCEPT ![c] = NotSampled]
    /\ wret' = [wret EXCEPT ![c] = NoRet]
    /\ UNCHANGED <<clockVars, read_address_busy, readVars, notLite>>

\* line 278 passed: the edge write() waited for
WriteSync(c) ==
    /\ Main(c) \in woken /\ mpc[c] = "sync"
    /\ UNCHANGED <<wargs, arem, drem>>
    /\ WriteFork(c)
    /\ woken' = woken \ {Main(c)}
    /\ UNCHANGED <<phase, read_address_busy, wresult, wret, readVars, notLite>>

\* acquire() returns to a task that waited for the address lock (218)
AddrLocked(c) ==
    /\ Addr(c) \in woken /\ apc[c] = "lock"
    /\ LET a == SendWriteAddressBegin(lbus, wargs[c].address, arem[c])
       IN /\ lbus' = a.bus
          /\ apc' = [apc EXCEPT ![c] = a.pc]
    /\ woken' = woken \ {Addr(c)}
    /\ UNCHANGED <<phase, lockVars, wargs, mpc, dpc, arem, drem, wresult, wret,
                   readVars, notLite>>

\* one edge of the delay loop (219-220), and after the last the lines 222-226
AddrDelay(c) ==
    /\ Addr(c) \in woken /\ apc[c] = "delay"
    /\ arem' = [arem EXCEPT ![c] = @ - 1]
    /\ LET a == SendWriteAddressBegin(lbus, wargs[c].address, arem'[c])
       IN /\ lbus' = a.bus
          /\ apc' = [apc EXCEPT ![c] = a.pc]
    /\ woken' = woken \ {Addr(c)}
    /\ UNCHANGED <<phase, lockVars, wargs, mpc, dpc, drem, wresult, wret,
                   readVars, notLite>>

\* an address task that gives up its wait after one settle point
AddrPollGiveUp(c) ==
    /\ phase = "ro" /\ Addr(c) \in woken /\ apc[c] = "ro"
    /\ apc' = [apc EXCEPT ![c] = "fin"]
    /\ woken' = woken \ {Addr(c)}
    /\ UNCHANGED <<phase, lbus, lockVars, wargs, mpc, dpc, arem, drem, wresult,
                   wret, readVars, notLite>>

\* lines 226-229: AWREADY sampled at the settle point
AddrPoll(c) ==
    /\ phase = "ro" /\ Addr(c) \in woken /\ apc[c] = "ro"
    /\ apc' = [apc EXCEPT ![c] = IF lbus.AWREADY = 1 THEN "fin" ELSE "edge"]
    /\ woken' = woken \ {Addr(c)}
    /\ UNCHANGED <<phase, lbus, lockVars, wargs, mpc, dpc, arem, drem, wresult,
                   wret, readVars, notLite>>

\* line 229 passed: back to yield ReadOnly() (226)
AddrRetry(c) ==
    /\ Addr(c) \in woken /\ apc[c] = "edge"
    /\ apc' = [apc EXCEPT ![c] = "ro"]
    /\ woken' = woken \ {Addr(c)}
    /\ UNCHANGED <<phase, lbus, lockVars, wargs, mpc, dpc, arem, drem, wresult,
                   wret, readVars, notLite>>

\* an address task that ends without release()
AddrFinishNoRelease(c) ==
    /\ Addr(c) \in woken /\ apc[c] = "fin"
    /\ lbus' = [lbus EXCEPT !.AWVALID = 0]
    /\ apc' = [apc EXCEPT ![c] = "finished"]
    /\ woken' = (woken \ {Addr(c)})
                  \cup (IF mpc[c] = "join_addr" THEN {Main(c)} ELSE {})
    /\ UNCHANGED <<phase, lockVars, wargs, mpc, dpc, arem, drem, wresult, wret,
                   readVars, notLite>>

\* lines 230-232: AWVALID lowered, the lock released, the task ends and
\* write() leaves c_addr.join() if it is there
AddrFinish(c) ==
    /\ Addr(c) \in woken /\ apc[c] = "fin"
    /\ lbus' = [lbus EXCEPT !.AWVALID = 0]
    /\ write_address_busy' = Release(write_address_busy)
    /\ apc' = [apc EXCEPT ![c] = "finished"]
    /\ woken' = (woken \ {Addr(c)})
                  \cup {Addr(t) : t \in Released(write_address_busy)}
                  \cup (IF mpc[c] = "join_addr" THEN {Main(c)} ELSE {})
    /\ UNCHANGED <<phase, write_data_busy, read_address_busy, wargs, mpc, dpc,
                   arem, drem, wresult, wret, readVars, notLite>>

\* acquire() returns to a task that waited for the data lock (237)
DataLocked(c) ==
    /\ Data(c) \in woken /\ dpc[c] = "lock"
    /\ LET d == SendWriteDataBegin(lbus, wargs[c].value, wargs[c].byte_enable,
                                   drem[c])
       IN /\ lbus' = d.bus
          /\ dpc' = [dpc EXCEPT ![c] = d.pc]
    /\ woken' = woken \ {Data(c)}
    /\ UNCHANGED <<phase, lockVars, wargs, mpc, apc, arem, drem, wresult, wret,
                   readVars, notLite>>

\* one edge of the delay loop (238-239), and after the last the lines 241-246
DataDelay(c) ==
    /\ Data(c) \in woken /\ dpc[c] = "delay"
    /\ drem' = [drem EXCEPT ![c] = @ - 1]
    /\ LET d == SendWriteDataBegin(lbus, wargs[c].value, wargs[c].byte_enable,
                                   drem'[c])
       IN /\ lbus' = d.bus
          /\ dpc' = [dpc EXCEPT ![c] = d.pc]
    /\ woken' = woken \ {Data(c)}
    /\ UNCHANGED <<phase, lockVars, wargs, mpc, apc, arem, wresult, wret,
                   readVars, notLite>>

\* lines 246-249: WREADY sampled at the settle point
DataPoll(c) ==
    /\ phase = "ro" /\ Data(c) \in woken /\ dpc[c] = "ro"
    /\ dpc' = [dpc EXCEPT ![c] = IF lbus.WREADY = 1 THEN "fin" ELSE "edge"]
    /\ woken' = woken \ {Data(c)}
    /\ UNCHANGED <<phase, lbus, lockVars, wargs, mpc, apc, arem, drem, wresult,
                   wret, readVars, notLite>>

\* line 249 passed: back to yield ReadOnly() (246)
DataRetry(c) ==
    /\ Data(c) \in woken /\ dpc[c] = "edge"
    /\ dpc' = [dpc EXCEPT ![c] = "ro"]
    /\ woken' = woken \ {Data(c)}
    /\ UNCHANGED <<phase, lbus, lockVars, wargs, mpc, apc, arem, drem, wresult,
                   wret, readVars, notLite>>

\* lines 250-252: WVALID lowered, the lock released, the task ends and
\* write() leaves c_data.join() if it is there
DataFinish(c) ==
    /\ Data(c) \in woken /\ dpc[c] = "fin"
    /\ lbus' = [lbus EXCEPT !.WVALID = 0]
    /\ write_data_busy' = Release(write_data_busy)
    /\ dpc' = [dpc EXCEPT ![c] = "finished"]
    /\ woken' = (woken \ {Data(c)})
                  \cup {Data(t) : t \in Released(write_data_busy)}
                  \cup (IF mpc[c] = "join_data" THEN {Main(c)} ELSE {})
    /\ UNCHANGED <<phase, write_address_busy, read_address_busy, wargs, mpc,
                   apc, arem, drem, wresult, wret, readVars, notLite>>

\* a write() that starts its response wait as soon as c_addr has ended
AfterAddrJoinNoWait(c) == "resp_ro"

\* lines 288-293: after c_addr.join(), c_data.join() if c_data still runs,
\* else the response wait
AfterAddrJoin(c) == IF dpc[c] # "finished" THEN "join_data" ELSE "resp_ro"

\* c_addr.join() returns (287)
WriteJoinAddr(c) ==
    /\ Main(c) \in woken /\ mpc[c] = "join_addr"
    /\ mpc' = [mpc EXCEPT ![c] = AfterAddrJoin(c)]
    /\ woken' = woken \ {Main(c)}
    /\ UNCHANGED <<phase, lbus, lockVars, wargs, apc, dpc, arem, drem, wresult,
                   wret, readVars, notLite>>

\* c_data.join() returns (289), on to yield ReadOnly() (293)
WriteJoinData(c) ==
    /\ Main(c) \in woken /\ mpc[c] = "join_data"
    /\ mpc' = [mpc EXCEPT ![c] = "resp_ro"]
    /\ woken' = woken \ {Main(c)}
    /\ UNCHANGED <<phase, lbus, lockVars, wargs, apc, dpc, arem, drem, wresult,
                   wret, readVars, notLite>>

\* lines 293-297: BVALID, BREADY and BRESP sampled at the settle point
WritePoll(c) ==
    /\ phase = "ro" /\ Main(c) \in woken /\ mpc[c] = "resp_ro"
    /\ IF lbus.BVALID = 1 /\ lbus.BREADY = 1
       THEN /\ wresult' = [wresult EXCEPT ![c] = lbus.BRESP]
            /\ mpc' = [mpc EXCEPT ![c] = "resp_fin"]
       ELSE /\ wresult' = wresult
            /\ mpc' = [mpc EXCEPT ![c] = "resp_edge"]
    /\ woken' = woken \ {Main(c)}
    /\ UNCHANGED <<phase, lbus, lockVars, wargs, apc, dpc, arem, drem, wret,
                   readVars, notLite>>

\* line 297 passed: back to yield ReadOnly() (293)
WriteRetry(c) ==
    /\ Main(c) \in woken /\ mpc[c] = "resp_edge"
    /\ mpc' = [mpc EXCEPT ![c] = "resp_ro"]
    /\ woken' = woken \ {Main(c)}
    /\ UNCHANGED <<phase, lbus, lockVars, wargs, apc, dpc, arem, drem, wresult,
                   wret, readVars, notLite>>

\* a write() that never raises
WriteOutcomeNoRaise(address, result) ==
    [kind |-> "return", address |-> 0, value |-> result]

\* lines 302-306: AXIProtocolError(address, result) if int(result), else
\* ReturnValue(result)
WriteOutcome(address, result) ==
    IF result # 0 THEN [kind |-> "error", address |-> address, value |-> result]
                  ELSE [kind |-> "return", address |-> 0, value |-> result]

\* line 299 passed: the call ends (302-306)
WriteReturn(c) ==
    /\ Main(c) \in woken /\ mpc[c] = "resp_fin"
    /\ wret' = [wret EXCEPT ![c] = WriteOutcome(wargs[c].address, wresult[c])]
    /\ mpc' = [mpc EXCEPT ![c] = "done"]
    /\ woken' = woken \ {Main(c)}
    /\ UNCHANGED <<phase, lbus, lockVars, wargs, apc, dpc, arem, drem, wresult,
                   readVars, notLite>>

(***************************************************************************)
(* The clock and the write channels' partner.                              *)
(***************************************************************************)
WriteEdgeWaiters ==
    {Main(c) : c \in {x \in WCalls : mpc[x] \in {"sync", "resp_edge", "resp_fin"}}}
    \cup {Addr(c) : c \in {x \in WCalls : apc[x] \in {"delay", "edge", "fin"}}}
    \cup {Data(c) : c \in {x \in WCalls : dpc[x] \in {"delay", "edge", "fin"}}}

WriteSettleWaiters ==
    {Main(c) : c \in {x \in WCalls : mpc[x] = "resp_ro"}}
    \cup {Addr(c) : c \in {x \in WCalls : apc[x] = "ro"}}
    \cup {Data(c) : c \in {x \in WCalls : dpc[x] = "ro"}}

\* RisingEdge(clock) fires
WriteEdge ==
    /\ phase = "ro" /\ woken = {}
    /\ phase' = "edge"
    /\ woken' = WriteEdgeWaiters
    /\ UNCHANGED <<liteVars, notLite>>

\* every coroutine of the edge has run: the partner drives AWREADY, WREADY,
\* BVALID and BRESP for the cycle, the values settle and ReadOnly() fires
WriteSettle ==
    /\ phase = "edge" /\ woken = {}
    /\ \E awready \in Bit, wready \in Bit, bvalid \in Bit, bresp \in Resps :
          /\ (bvalid = 0 => bresp = 0)
          /\ lbus' = [lbus EXCEPT !.AWREADY = awready, !.WREADY = wready,
                                  !.BVALID = bvalid, !.BRESP = bresp]
    /\ phase' = "ro"
    /\ woken' = WriteSettleWaiters
    /\ UNCHANGED <<lockVars, writeVars, readVars, notLite>>

WriteNext ==
    \/ \E c \in WCalls :
          \/ WriteCall(c) \/ WriteSync(c)
          \/ AddrLocked(c) \/ AddrDelay(c) \/ AddrPoll(c) \/ AddrRetry(c)
          \/ AddrFinish(c)
          \/ DataLocked(c) \/ DataDelay(c) \/ DataPoll(c) \/ DataRetry(c)
          \/ DataFinish(c)
          \/ WriteJoinAddr(c) \/ WriteJoinData(c) \/ WritePoll(c)
          \/ WriteRetry(c) \/ WriteReturn(c)
    \/ WriteEdge
    \/ WriteSettle

MasterInit == ClockInit /\ LiteInit /\ SlaveParked /\ StreamParked

SpecWrite == MasterInit /\ [][WriteNext]_vars

(***************************************************************************)
(* AXI4LiteMaster.read (lines 308-350).  Positions of read():              *)
(*   "sync" at RisingEdge (324)     "ar_ro" at ReadOnly (330)              *)
(*   "ar_edge" at RisingEdge (333)  "ar_fin" at RisingEdge (335)           *)
(*   "r_ro" at ReadOnly (339)       "r_edge" at RisingEdge (344)           *)
(*   "done" returned or raised                                             *)
(* read() takes no lock: read_address_busy is created (210) and never used.*)
(***************************************************************************)
ReadAddrPhase == {"ar_ro", "ar_edge", "ar_fin"}  \* ARVALID driven, not yet lowered
ReadData == {7, 9}                               \* RDATA values of the partner

\* lines 326-327
DriveReadAddress(bus, a) == [bus EXCEPT !.ARADDR = a, !.ARVALID = 1]

\* a test calls read(address, sync) (lines 309-330)
ReadCall(c) ==
    /\ phase = "edge"
    /\ rpc[c] \in {"idle", "done"}
    /\ \E a \in ReadInputs, sync \in BOOLEAN :
          /\ rargs' = [rargs EXCEPT ![c] = [NoArgs EXCEPT !.address = a]]
          /\ IF sync
             THEN /\ rpc' = [rpc EXCEPT ![c] = "sync"]
                  /\ lbus' = lbus
             ELSE /\ rpc' = [rpc EXCEPT ![c] = "ar_ro"]
                  /\ lbus' = DriveReadAddress(lbus, a)
    /\ rsample' = [rsample EXCEPT ![c] = NoSample]
    /\ rret' = [rret EXCEPT ![c] = NoRet]
    /\ UNCHANGED <<clockVars, lockVars, writeVars, notLite>>

\* line 324 passed: ARADDR and ARVALID driven (326-330)
ReadSync(c) ==
    /\ c \in woken /\ rpc[c] = "sync"
    /\ lbus' = DriveReadAddress(lbus, rargs[c].address)
    /\ rpc' = [rpc EXCEPT ![c] = "ar_ro"]
    /\ woken' = woken \ {c}
    /\ UNCHANGED <<phase, lockVars, writeVars, rargs, rsample, rret, notLite>>

\* lines 330-333: ARREADY sampled at the settle point
ReadAddrPoll(c) ==
    /\ phase = "ro" /\ c \in woken /\ rpc[c] = "ar_ro"
    /\ rpc' = [rpc EXCEPT ![c] = IF lbus.ARREADY = 1 THEN "ar_fin" ELSE "ar_edge"]
    /\ woken' = woken \ {c}
    /\ UNCHANGED <<phase, lbus, lockVars, writeVars, rargs, rsample, rret, notLite>>

\* line 333 passed: back to yield ReadOnly() (330)
ReadAddrRetry(c) ==
    /\ c \in woken /\ rpc[c] = "ar_edge"
    /\ rpc' = [rpc EXCEPT ![c] = "ar_ro"]
    /\ woken' = woken \ {c}
    /\ UNCHANGED <<phase, lbus, lockVars, writeVars, rargs, rsample, rret, notLite>>

\* lines 335-339: ARVALID lowered, on to the data wait
ReadAddrFinish(c) ==
    /\ c \in woken /\ rpc[c] = "ar_fin"
    /\ lbus' = [lbus EXCEPT !.ARVALID = 0]
    /\ rpc' = [rpc EXCEPT ![c] = "r_ro"]
    /\ woken' = woken \ {c}
    /\ UNCHANGED <<phase, lockVars, writeVars, rargs, rsample, rret, notLite>>

\* a read() that hands back the data whatever RRESP says
ReadOutcomeNoRaise(address, data, result) ==
    [kind |-> "return", address |-> 0, value |-> data]

\* lines 346-350: AXIProtocolError(address, result) if int(result), else
\* ReturnValue(data)
ReadOutcome(address, data, result) ==
    IF result # 0 THEN [kind |-> "error", address |-> address, value |-> result]
                  ELSE [kind |-> "return", address |-> 0, value |-> data]

\* lines 339-350: RVALID, RREADY sampled at the settle point; with both high
\* RDATA and RRESP are taken there and the call ends
ReadPoll(c) ==
    /\ phase = "ro" /\ c \in woken /\ rpc[c] = "r_ro"
    /\ IF lbus.RVALID = 1 /\ lbus.RREADY = 1
       THEN /\ rsample' = [rsample EXCEPT ![c] =
                              [data |-> lbus.RDATA, result |-> lbus.RRESP]]
            /\ rret' = [rret EXCEPT ![c] =
                           ReadOutcome(rargs[c].address, lbus.RDATA, lbus.RRESP)]
            /\ rpc' = [rpc EXCEPT ![c] = "done"]
       ELSE /\ rpc' = [rpc EXCEPT ![c] = "r_edge"]
            /\ UNCHANGED <<rsample, rret>>
    /\ woken' = woken \ {c}
    /\ UNCHANGED <<phase, lbus, lockVars, writeVars, rargs, notLite>>

\* line 344 passed: back to yield ReadOnly() (339)
ReadRetry(c) ==
    /\ c \in woken /\ rpc[c] = "r_edge"
    /\ rpc' = [rpc EXCEPT ![c] = "r_ro"]
    /\ woken' = woken \ {c}
    /\ UNCHANGED <<phase, lbus, lockVars, writeVars, rargs, rsample, rret, notLite>>

\* RisingEdge(clock) fires
ReadEdge ==
    /\ phase = "ro" /\ woken = {}
    /\ phase' = "edge"
    /\ woken' = {c \in RCalls : rpc[c] \in {"sync", "ar_edge", "ar_fin", "r_edge"}}
    /\ UNCHANGED <<liteVars, notLite>>

\* every coroutine of the edge has run: the partner drives ARREADY, RVALID,
\* RDATA and RRESP for the cycle, the values settle and ReadOnly() fires
ReadSettle ==
    /\ phase = "edge" /\ woken = {}
    /\ \E arready \in Bit, rvalid \in Bit, rdata \in ReadData \cup {0},
          rresp \in Resps :
          /\ (rvalid = 0 => rresp = 0 /\ rdata = 0)
          /\ (rvalid = 1 => rdata # 0)
          /\ lbus' = [lbus EXCEPT !.ARREADY = arready, !.RVALID = rvalid,
                                  !.RDATA = rdata, !.RRESP = rresp]
    /\ phase' = "ro"
    /\ woken' = {c \in RCalls : rpc[c] \in {"ar_ro", "r_ro"}}
    /\ UNCHANGED <<lockVars, writeVars, readVars, notLite>>

ReadNext ==
    \/ \E c \in RCalls :
          \/ ReadCall(c) \/ ReadSync(c)
          \/ ReadAddrPoll(c) \/ ReadAddrRetry(c) \/ ReadAddrFinish(c)
          \/ ReadPoll(c) \/ ReadRetry(c)
    \/ ReadEdge
    \/ ReadSettle

SpecRead == MasterInit /\ [][ReadNext]_vars

(***************************************************************************)
(* Properties of the AXI4-Lite master.                                     *)
(***************************************************************************)

\* C1: at most one write call's address task is between acquiring and
\* releasing the write-address lock, and while a call has AWVALID asserted
\* (until it has seen AWREADY and lowered it) AWADDR and AWVALID are its own;
\* the same for the data task, the write-data lock and WDATA/WSTRB/WVALID.
C1_WriteChannelsExclusive ==
    /\ Cardinality({c \in WCalls : apc[c] \in AddrHolding}) <= 1
    /\ Cardinality({c \in WCalls : dpc[c] \in DataHolding}) <= 1
    /\ \A c \in WCalls :
          /\ apc[c] \in AddrHolding => write_address_busy.locked
          /\ dpc[c] \in DataHolding => write_data_busy.locked
          /\ apc[c] \in AddrAsserted =>
                lbus.AWVALID = 1 /\ lbus.AWADDR = wargs[c].address
          /\ dpc[c] \in DataAsserted =>
                /\ lbus.WVALID = 1
                /\ lbus.WDATA = wargs[c].value
                /\ lbus.WSTRB = wargs[c].byte_enable

\* two concurrent calls with different addresses: one drives the address
\* channel, the other waits for its lock
C1_Witness ==
    \E c1, c2 \in WCalls :
        /\ apc[c1] \in AddrAsserted /\ apc[c2] = "lock"
        /\ dpc[c1] \in DataAsserted /\ dpc[c2] = "lock"
        /\ wargs[c1].address # wargs[c2].address

\* C3: a write call is in its response wait (where it samples BVALID, BREADY
\* and BRESP) only after both its address task and its data task have ended.
C3_ResponseAfterJoin ==
    \A c \in WCalls :
        mpc[c] \in RespWait => apc[c] = "finished" /\ dpc[c] = "finished"

\* a call about to sample the response, both tasks ended
C3_Witness ==
    \E c \in WCalls :
        /\ phase = "ro" /\ Main(c) \in woken /\ mpc[c] = "resp_ro"
        /\ apc[c] = "finished" /\ dpc[c] = "finished"

\* C4: the result of a write call is the BRESP it sampled at a settle point
\* with BVALID and BREADY high; the call ends with a Protocol Error if and
\* only if that code is nonzero, the error carries the call's address and the
\* code, and with code zero the call returns the code.
C4_WriteErrorIffNonzero ==
    \A c \in WCalls :
        /\ (mpc[c] = "resp_fin" /\ phase = "ro") =>
              /\ lbus.BVALID = 1 /\ lbus.BREADY = 1
              /\ wresult[c] = lbus.BRESP
        /\ mpc[c] # "done" => wret[c].kind = "none"
        /\ mpc[c] = "done" =>
              /\ wret[c].kind = "error" <=> wresult[c] # 0
              /\ wret[c].kind = "return" <=> wresult[c] = 0
              /\ wret[c].kind = "error" =>
                    /\ wret[c].address = wargs[c].address
                    /\ wret[c].value = wresult[c]
              /\ wret[c].kind = "return" => wret[c].value = 0

\* one call has failed with SLVERR, another has returned
C4_Witness ==
    \E c1, c2 \in WCalls :
        /\ mpc[c1] = "done" /\ wret[c1].kind = "error" /\ wret[c1].value = 2
        /\ mpc[c2] = "done" /\ wret[c2].kind = "return"

\* C2: at most one read call is in its read-address phase at any time.
C2_ReadAddressExclusive ==
    /\ Cardinality({c \in RCalls : rpc[c] \in ReadAddrPhase}) <= 1
    /\ \A c \in RCalls :
          rpc[c] \in ReadAddrPhase =>
             lbus.ARVALID = 1 /\ lbus.ARADDR = rargs[c].address

\* C5: a read call that samples RVALID and RREADY high at a settle point ends
\* there: with RRESP nonzero in a Protocol Error carrying its address and
\* that code and no data, with RRESP zero by returning the RDATA of that
\* settle point; a call that does not see both high does not end.
C5_ReadResult ==
    [][\A c \in RCalls :
          (rpc[c] = "r_ro" /\ rpc'[c] # "r_ro") =>
             IF lbus.RVALID = 1 /\ lbus.RREADY = 1
             THEN /\ phase = "ro"
                  /\ rpc'[c] = "done"
                  /\ rret'[c] =
                        IF lbus.RRESP # 0
                        THEN [kind |-> "error", address |-> rargs[c].address,
                              value |-> lbus.RRESP]
                        ELSE [kind |-> "return", address |-> 0,
                              value |-> lbus.RDATA]
             ELSE rpc'[c] = "r_edge" /\ rret'[c] = rret[c]]_vars

\* a read of address 32 has failed with SLVERR and a read has returned data
C5_Witness ==
    \E c1, c2 \in RCalls :
        /\ rpc[c1] = "done"
        /\ rret[c1] = [kind |-> "error", address |-> 32, value |-> 2]
        /\ rpc[c2] = "done" /\ rret[c2].kind = "return" /\ rret[c2].value = 9

(***************************************************************************)
(* AXI4Slave._write_data (lines 394-456).  Positions:                      *)
(*   "aw_ro"     at yield ReadOnly() (402)   "aw_edge" at clock_re (407)   *)
(*   "aw_accept" at clock_re (430)           "w_edge"  at clock_re (456)   *)
(*   "dead"      ended by an exception                                     *)
(* The second yield ReadOnly() (409) is reached at a settle point and      *)
(* leaves the coroutine at settled values of the same cycle.               *)
(***************************************************************************)
W == "w"    \* the coroutine _write_data()
R == "r"    \* the coroutine _read_data()

\* lines 399-400
WriteIdle(bus) == [bus EXCEPT !.AWREADY = 1, !.WREADY = 0]

\* lines 402-430: AWVALID sampled at the settle point; when it is high the
\* burst is decoded there.  On a bytes_in_beat of None the log line 426
\* raises TypeError; it is run only when __debug__ is set (not under
\* python -O), and without it the coroutine goes on to line 430.
SlaveAwPoll ==
    /\ phase = "ro" /\ W \in woken /\ sw_pc = "aw_ro"
    /\ IF sbus.AWVALID = 1
       THEN LET b == SizeToBytesInBeat(sbus.AWSIZE)
            IN \E debug \in BOOLEAN :
                  LET raised == b = NoBytes /\ debug
                  IN /\ b # NoBytes => debug
                     /\ sw' = [addr |-> sbus.AWADDR,
                               burst_length |-> sbus.AWLEN + 1,
                               bytes_in_beat |-> b,
                               burst_count |-> IF raised THEN 0
                                               ELSE sbus.AWLEN + 1]
                     /\ sw_pc' = IF raised THEN "dead" ELSE "aw_accept"
                     /\ wlog' = [mem0 |-> memory, beats |-> <<>>, done |-> FALSE]
                     /\ rlog' = [rlog EXCEPT !.fresh = FALSE]
       ELSE /\ sw_pc' = "aw_edge"
            /\ UNCHANGED <<sw, wlog, rlog>>
    /\ woken' = woken \ {W}
    /\ UNCHANGED <<phase, sbus, memory, big_endian, wdata_bytes, memory_kind,
                   sr_pc, sr, master, hs, notSlave>>

\* line 407 passed: back to yield ReadOnly() (402)
SlaveAwRetry ==
    /\ W \in woken /\ sw_pc = "aw_edge"
    /\ sw_pc' = "aw_ro"
    /\ woken' = woken \ {W}
    /\ UNCHANGED <<phase, sbus, memory, big_endian, wdata_bytes, memory_kind, sw, sr_pc, sr,
                   master, hs, wlog, rlog, notSlave>>

\* lines 435-456, one turn of the data loop right after an edge, `bus` being
\* the lines as this coroutine has driven them so far: WVALID and WDATA are
\* read as the edge left them; a beat seen is stored, and after the last one
\* the outer loop turns (399-402).  Line 440 raises TypeError on a
\* bytes_in_beat of None, line 451 on a buffer that does not take the list.
SlaveWriteTurn(bus) ==
    IF sbus.WVALID = 1
    THEN LET st == BeatStart(sw.addr, sw.burst_length, sw.burst_count,
                             sw.bytes_in_beat)
             end == BeatEnd(sw.addr, sw.burst_length, sw.burst_count,
                            sw.bytes_in_beat)
             count == sw.burst_count - 1
             bytes == WriteBeatBytes(sbus.WDATA, wdata_bytes, big_endian)
         IN IF sw.bytes_in_beat = NoBytes
                  \/ StoreRaises(memory_kind, memory, st, end, bytes)
            THEN /\ sbus' = bus
                 /\ sw_pc' = "dead"
                 /\ UNCHANGED <<memory, sw, wlog>>
            ELSE /\ memory' = Store(memory_kind, memory, st, end, bytes)
                 /\ sw' = [sw EXCEPT !.burst_count = count]
                 /\ wlog' = [wlog EXCEPT !.beats = Append(@, sbus.WDATA),
                                         !.done = (count = 0)]
                 /\ sbus' = IF count = 0 THEN WriteIdle(bus) ELSE bus
                 /\ sw_pc' = IF count = 0 THEN "aw_ro" ELSE "w_edge"
    ELSE /\ sbus' = bus
         /\ sw_pc' = "w_edge"
         /\ UNCHANGED <<memory, sw, wlog>>

\* line 430 passed: AWREADY lowered, WREADY raised (432-433), then the first
\* turn of the data loop
SlaveAwAccept ==
    /\ W \in woken /\ sw_pc = "aw_accept"
    /\ SlaveWriteTurn([sbus EXCEPT !.AWREADY = 0, !.WREADY = 1])
    /\ woken' = woken \ {W}
    /\ UNCHANGED <<phase, big_endian, wdata_bytes, memory_kind, sr_pc, sr, master, hs, rlog,
                   notSlave>>

\* line 456 passed: the next turn of the data loop
SlaveWriteBeat ==
    /\ W \in woken /\ sw_pc = "w_edge"
    /\ SlaveWriteTurn(sbus)
    /\ woken' = woken \ {W}
    /\ UNCHANGED <<phase, big_endian, wdata_bytes, memory_kind, sr_pc, sr, master, hs, rlog,
                   notSlave>>

(***************************************************************************)
(* AXI4Slave._read_data (lines 458-513).  Positions:                       *)
(*   "ar_ro"     at yield ReadOnly() (466)   "ar_edge" at clock_re (469)   *)
(*   "ar_accept" at clock_re (494)           "r_edge"  at clock_re (512)   *)
(*   "dead"      ended by an exception                                     *)
(***************************************************************************)
\* lines 463-464
ReadIdle(bus) == [bus EXCEPT !.ARREADY = 1, !.RVALID = 0]

\* lines 466-494: ARVALID sampled at the settle point; when it is high the
\* burst is decoded there, and line 481 raises TypeError on a bytes_in_beat
\* of None
SlaveArPoll ==
    /\ phase = "ro" /\ R \in woken /\ sr_pc = "ar_ro"
    /\ IF sbus.ARVALID = 1
       THEN LET b == SizeToBytesInBeat(sbus.ARSIZE)
            IN /\ sr' = [addr |-> sbus.ARADDR,
                         burst_length |-> sbus.ARLEN + 1,
                         bytes_in_beat |-> b,
                         burst_count |-> IF b = NoBytes THEN 0 ELSE sbus.ARLEN + 1]
               /\ sr_pc' = IF b = NoBytes THEN "dead" ELSE "ar_accept"
               /\ rlog' = [loaded |-> <<>>, xfer |-> <<>>, done |-> FALSE,
                           fresh |-> wlog.done]
       ELSE /\ sr_pc' = "ar_edge"
            /\ UNCHANGED <<sr, rlog>>
    /\ woken' = woken \ {R}
    /\ UNCHANGED <<phase, sbus, memory, big_endian, wdata_bytes, memory_kind, sw_pc, sw,
                   master, hs, wlog, notSlave>>

\* line 469 passed: back to yield ReadOnly() (466)
SlaveArRetry ==
    /\ R \in woken /\ sr_pc = "ar_edge"
    /\ sr_pc' = "ar_ro"
    /\ woken' = woken \ {R}
    /\ UNCHANGED <<phase, sbus, memory, big_endian, wdata_bytes, memory_kind, sw_pc, sw, sr,
                   master, hs, wlog, rlog, notSlave>>

\* lines 499-513 and 463-466, one turn of the beat loop right after an edge:
\* RREADY is read as the edge left it; when it is high the next beat is
\* loaded on RDATA and counted (line 507 raising on a buffer that has no
\* .tostring()); with no beat left RVALID is lowered and the outer loop turns
SlaveReadTurn(bus) ==
    IF sr.burst_count = 0
    THEN /\ sbus' = ReadIdle([bus EXCEPT !.RVALID = 0])
         /\ sr_pc' = "ar_ro"
         /\ sr' = sr
         /\ rlog' = [rlog EXCEPT !.done = TRUE]
    ELSE IF sbus.RREADY = 0
    THEN /\ sbus' = bus
         /\ sr_pc' = "r_edge"
         /\ UNCHANGED <<sr, rlog>>
    ELSE IF LoadRaises(memory_kind)
    THEN /\ sbus' = bus
         /\ sr_pc' = "dead"
         /\ UNCHANGED <<sr, rlog>>
    ELSE LET st == BeatStart(sr.addr, sr.burst_length, sr.burst_count,
                             sr.bytes_in_beat)
             end == BeatEnd(sr.addr, sr.burst_length, sr.burst_count,
                            sr.bytes_in_beat)
             word == ReadBeatWord(
                         ReadBeatInteger(Slice(memory, st, end), big_endian),
                         sr.bytes_in_beat)
         IN /\ sbus' = [bus EXCEPT
                           !.RDATA = word,
                           !.RLAST = IF sr.burst_count = 1 THEN 1 ELSE @]
            /\ sr' = [sr EXCEPT !.burst_count = @ - 1]
            /\ rlog' = [rlog EXCEPT !.loaded = Append(@, word)]
            /\ sr_pc' = "r_edge"

\* line 494 passed: ARREADY lowered, RVALID raised, RLAST lowered (496-498),
\* then the first turn of the beat loop
SlaveArAccept ==
    /\ R \in woken /\ sr_pc = "ar_accept"
    /\ SlaveReadTurn([sbus EXCEPT !.ARREADY = 0, !.RVALID = 1, !.RLAST = 0])
    /\ woken' = woken \ {R}
    /\ UNCHANGED <<phase, memory, big_endian, wdata_bytes, memory_kind, sw_pc, sw, master, hs,
                   wlog, notSlave>>

\* line 512 passed: the next turn of the beat loop
SlaveReadBeat ==
    /\ R \in woken /\ sr_pc = "r_edge"
    /\ SlaveReadTurn(sbus)
    /\ woken' = woken \ {R}
    /\ UNCHANGED <<phase, memory, big_endian, wdata_bytes, memory_kind, sw_pc, sw, master, hs,
                   wlog, notSlave>>

(***************************************************************************)
(* The clock of the slave and the bus master it serves.  The master keeps  *)
(* the AXI rules: a valid it has raised stays, with its payload, until the *)
(* edge that shows the handshake; it issues one burst at a time, when the  *)
(* bus shows both responders idle, inside the memory; it sends W beats     *)
(* only for a write burst it has issued; RREADY is free in every cycle of   *)
(* a read request or burst and keeps its value in the others.              *)
(***************************************************************************)
Addresses == {0, 2}     \* AxADDR of the bus master
Sizes == {0, 1, 7}      \* AxSIZE of the bus master
\* WDATA words of the bus master
WWords == IF wdata_bytes = 1 THEN {17, 34} ELSE {4386, 13124}

\* RisingEdge(clock) fires; the handshakes and read transfers the ended
\* cycle showed are noted (the first MaxLen + 2 transfers of a burst)
SlaveEdge ==
    /\ phase = "ro" /\ woken = {}
    /\ phase' = "edge"
    /\ woken' = (IF sw_pc \in {"aw_edge", "aw_accept", "w_edge"} THEN {W} ELSE {})
                \cup (IF sr_pc \in {"ar_edge", "ar_accept", "r_edge"} THEN {R} ELSE {})
    /\ hs' = [aw |-> sbus.AWVALID = 1 /\ sbus.AWREADY = 1,
              w  |-> sbus.WVALID = 1 /\ sbus.WREADY = 1,
              ar |-> sbus.ARVALID = 1 /\ sbus.ARREADY = 1]
    /\ master' = [master EXCEPT !.w_left =
                     IF hs'.w /\ @ > 0 THEN @ - 1 ELSE @]
    /\ rlog' = IF sbus.RVALID = 1 /\ sbus.RREADY = 1
                     /\ Len(rlog.xfer) < MaxLen + 2
               THEN [rlog EXCEPT !.xfer =
                        Append(@, [data |-> sbus.RDATA, last |-> sbus.RLAST])]
               ELSE rlog
    /\ UNCHANGED <<sbus, memory, big_endian, wdata_bytes, memory_kind, sw_pc, sw, sr_pc, sr,
                   wlog, notSlave>>

\* every coroutine of the edge has run: the bus master drives its lines for
\* the cycle, the values settle and ReadOnly() fires
SlaveSettle ==
    /\ phase = "edge" /\ woken = {}
    /\ LET idle == /\ sbus.AWREADY = 1 /\ sbus.WREADY = 0
                   /\ sbus.ARREADY = 1 /\ sbus.RVALID = 0
           awHeld == sbus.AWVALID = 1 /\ ~hs.aw
           arHeld == sbus.ARVALID = 1 /\ ~hs.ar
           wHeld == sbus.WVALID = 1 /\ ~hs.w
           mayIssue == idle /\ ~awHeld /\ ~arHeld /\ master.bursts < MaxBursts
           reading == sbus.ARREADY = 0 \/ sbus.RVALID = 1 \/ arHeld
       IN \E req \in {"none", "write", "read"}, a \in Addresses,
             len \in 0..(MaxLen - 1), size \in Sizes,
             wv \in Bit, wd \in WWords \cup {0}, rr \in Bit :
             LET left == IF req = "write" THEN len + 1 ELSE master.w_left
                 aw == IF awHeld THEN <<1, sbus.AWADDR, sbus.AWLEN, sbus.AWSIZE>>
                       ELSE IF req = "write" THEN <<1, a, len, size>>
                       ELSE <<0, 0, 0, 0>>
                 ar == IF arHeld THEN <<1, sbus.ARADDR, sbus.ARLEN, sbus.ARSIZE>>
                       ELSE IF req = "read" THEN <<1, a, len, size>>
                       ELSE <<0, 0, 0, 0>>
             IN /\ req # "none" =>
                      /\ mayIssue
                      /\ size < 7 => a + (len + 1) * Pow(2, size) <= MemBytes
                      /\ req = "write" => master.w_left = 0
                /\ req = "none" => a = 0 /\ len = 0 /\ size = 0
                /\ wHeld => wv = 1 /\ wd = sbus.WDATA
                /\ (~wHeld /\ left = 0) => wv = 0
                /\ wv = 0 <=> wd = 0
                /\ (~reading /\ req # "read") => rr = sbus.RREADY
                /\ sbus' = [sbus EXCEPT
                              !.AWVALID = aw[1], !.AWADDR = aw[2],
                              !.AWLEN = aw[3], !.AWSIZE = aw[4],
                              !.ARVALID = ar[1], !.ARADDR = ar[2],
                              !.ARLEN = ar[3], !.ARSIZE = ar[4],
                              !.WVALID = wv, !.WDATA = wd, !.RREADY = rr]
                /\ master' = [bursts |-> master.bursts
                                           + (IF req = "none" THEN 0 ELSE 1),
                              w_left |-> left]
    /\ phase' = "ro"
    /\ woken' = (IF sw_pc = "aw_ro" THEN {W} ELSE {})
                \cup (IF sr_pc = "ar_ro" THEN {R} ELSE {})
    /\ UNCHANGED <<memory, big_endian, wdata_bytes, memory_kind, sw_pc, sw, sr_pc, sr, hs,
                   wlog, rlog, notSlave>>

SlaveNext ==
    \/ SlaveAwPoll \/ SlaveAwRetry \/ SlaveAwAccept \/ SlaveWriteBeat
    \/ SlaveArPoll \/ SlaveArRetry \/ SlaveArAccept \/ SlaveReadBeat
    \/ SlaveEdge
    \/ SlaveSettle

\* the master of a test bench that drives only the slave
LiteParked == LiteInit

SlaveBenchInit == ClockInit /\ SlaveInit /\ LiteParked /\ StreamParked

SpecSlave == SlaveBenchInit /\ [][SlaveNext]_vars

(***************************************************************************)
(* The write burst the slave has just stored: its address, length and beat *)
(* size are the locals of _write_data(), its beats the words the data loop *)
(* consumed, in order.                                                     *)
(***************************************************************************)
\* the bytes of memory outside [lo, hi) are those of before
KeptOutside(mem, before, lo, hi) ==
    \A j \in 0..(Len(before) - 1) :
        (j < lo \/ j >= hi) => mem[j + 1] = before[j + 1]

\* beat i of the burst lies in [A + i*B, A + (i+1)*B)
BeatLanded(mem, i) ==
    Slice(mem, sw.addr + i * sw.bytes_in_beat,
               sw.addr + (i + 1) * sw.bytes_in_beat)
        = WriteBeatBytes(wlog.beats[i + 1] % Pow(256, sw.bytes_in_beat),
                         sw.bytes_in_beat, big_endian)

\* C6: a slave write burst of L beats of B bytes at address A writes exactly
\* L*B bytes: the data loop is not ended by an error, and when the burst is
\* stored the memory has the length it had, every byte outside [A, A + L*B)
\* has the value it had, and beat i lies in [A + i*B, A + (i+1)*B), whatever
\* the width of the WDATA line.
C6_WriteBurstLands ==
    /\ sw_pc = "dead" => sw.bytes_in_beat = NoBytes
    /\ wlog.done =>
          /\ Len(memory) = Len(wlog.mem0)
          /\ KeptOutside(memory, wlog.mem0, sw.addr,
                         sw.addr + sw.burst_length * sw.bytes_in_beat)
          /\ \A i \in 0..(sw.burst_length - 1) : BeatLanded(memory, i)

\* a read burst served right after a write burst, with the same address,
\* length and beat size, the beat as wide as the WDATA line
ReadBackOfWrite ==
    /\ wlog.done /\ rlog.done /\ rlog.fresh
    /\ sr.addr = sw.addr
    /\ sr.burst_length = sw.burst_length
    /\ sr.bytes_in_beat = sw.bytes_in_beat
    /\ sw.bytes_in_beat = wdata_bytes

\* C7: for both values of big_endian, the words a read burst loads on RDATA
\* are the words the write burst before it, of the same address, length and
\* beat size, consumed from WDATA, in the same order.
C7_RoundTrip == ReadBackOfWrite => rlog.loaded = wlog.beats

\* C8: of the beats a read burst of length L transfers, the L-th carries
\* RLAST = 1 and no other does, under every RREADY pattern.
C8_LastOnFinalBeat ==
    /\ \A i \in 1..Len(rlog.xfer) :
          rlog.xfer[i].last = 1 => i = sr.burst_length
    /\ rlog.done =>
          /\ Len(rlog.xfer) >= sr.burst_length
          /\ rlog.xfer[sr.burst_length].last = 1

\* C9: when a read burst of length L ends (RVALID lowered), exactly L beats
\* have been transferred (edges with RVALID and RREADY high), and they carry,
\* in order, the words loaded from the L ranges of the burst, under every
\* RREADY pattern.
C9_ExactlyLTransfers ==
    rlog.done =>
       /\ Len(rlog.xfer) = sr.burst_length
       /\ [i \in 1..Len(rlog.xfer) |-> rlog.xfer[i].data] = rlog.loaded

(***************************************************************************)
(* AXI4StreamMaster._driver_send (lines 90-149) with _wait_ready (83-88).  *)
(* Positions:                                                              *)
(*   "idle"       not running             "sync"   at clkedge (112)        *)
(*   "ready_ro"   at ReadOnly() (85, 88)  "ready_edge" at RisingEdge (87)  *)
(*   "final"      at clkedge (148)                                         *)
(***************************************************************************)
\* lines 122-135: TVALID raised and every line the bus has assigned from the
\* arguments
DriveBeat(bus, a) ==
    [bus EXCEPT !.TVALID = 1,
                !.TDATA = IF Has("TDATA") THEN a.data ELSE @,
                !.TSTRB = IF Has("TSTRB") THEN a.strb ELSE @,
                !.TKEEP = IF Has("TKEEP") THEN a.keep ELSE @,
                !.TLAST = IF Has("TLAST") THEN a.last ELSE @]

\* what a beat shows on the lines of the bus
BeatOnBus(bus) ==
    [data |-> bus.TDATA, strb |-> bus.TSTRB, keep |-> bus.TKEEP,
     last |-> bus.TLAST]

\* lines 122-148: the beat is driven and the coroutine waits, for TREADY
\* when the bus has it (146-147), else for the next edge (148)
StreamDriveFrom(bus, a) ==
    /\ tbus' = DriveBeat(bus, a)
    /\ tlog' = Append(tlog, BeatOnBus(tbus'))
    /\ st_pc' = IF Has("TREADY") THEN "ready_ro" ELSE "final"

\* the arguments a test passes to send one beat
SendArgs ==
    {[data |-> IF Has("TDATA") THEN [i \in 1..BytesPerBeat |-> 47 + i]
                               ELSE <<48>>,
      strb |-> IF Has("TSTRB") THEN Ones(MaskLen) ELSE NoMask,
      keep |-> IF Has("TKEEP") THEN Ones(MaskLen) ELSE NoMask,
      last |-> IF Has("TLAST") THEN last ELSE NoLast,
      sync |-> sync] : last \in Bit, sync \in BOOLEAN}

\* the test yields _driver_send(...): lines 92-112, and 122-148 when sync is
\* not set
StreamSend ==
    /\ phase = "edge" /\ woken = {} /\ st_pc = "idle" /\ tcalls < MaxCalls
    /\ \E a \in SendArgs :
          /\ st_args' = a
          /\ IF a.sync
             THEN /\ tbus' = [tbus EXCEPT !.TVALID = 0]
                  /\ st_pc' = "sync"
                  /\ tlog' = <<>>
             ELSE /\ tbus' = DriveBeat(tbus, a)
                  /\ tlog' = <<BeatOnBus(tbus')>>
                  /\ st_pc' = IF Has("TREADY") THEN "ready_ro" ELSE "final"
    /\ frame' = NoFrame
    /\ tacc' = NoTransfer
    /\ mrecv' = <<>>
    /\ tcalls' = tcalls + 1
    /\ UNCHANGED <<phase, woken, tprofile, tdata_len, mon_pc, notStream>>

\* line 112 passed
StreamDrive ==
    /\ S \in woken /\ st_pc = "sync"
    /\ StreamDriveFrom(tbus, st_args)
    /\ woken' = woken \ {S}
    /\ UNCHANGED <<phase, tprofile, tdata_len, st_args, frame, tcalls,
                   tacc, monVars, notStream>>

\* a _wait_ready that returns at its first settle point, whatever TREADY is
StreamReadyPollNoWait ==
    /\ phase = "ro" /\ S \in woken /\ st_pc = "ready_ro"
    /\ st_pc' = "final"
    /\ woken' = woken \ {S}
    /\ UNCHANGED <<phase, tprofile, tdata_len, tbus, st_args, frame, tlog,
                   tcalls, tacc, monVars, notStream>>

\* lines 85-88: TREADY sampled at the settle point
StreamReadyPoll ==
    /\ phase = "ro" /\ S \in woken /\ st_pc = "ready_ro"
    /\ st_pc' = IF tbus.TREADY = 1 THEN "final" ELSE "ready_edge"
    /\ woken' = woken \ {S}
    /\ UNCHANGED <<phase, tprofile, tdata_len, tbus, st_args, frame, tlog,
                   tcalls, tacc, monVars, notStream>>

\* line 87 passed: back to yield ReadOnly() (88)
StreamReadyRetry ==
    /\ S \in woken /\ st_pc = "ready_edge"
    /\ st_pc' = "ready_ro"
    /\ woken' = woken \ {S}
    /\ UNCHANGED <<phase, tprofile, tdata_len, tbus, st_args, frame, tlog,
                   tcalls, tacc, monVars, notStream>>

\* line 148 passed: TVALID lowered (149), the coroutine returns
StreamFinish ==
    /\ S \in woken /\ st_pc = "final"
    /\ tbus' = [tbus EXCEPT !.TVALID = 0]
    /\ st_pc' = "idle"
    /\ woken' = woken \ {S}
    /\ UNCHANGED <<phase, tprofile, tdata_len, st_args, frame, tlog, tcalls,
                   tacc, monVars, notStream>>

(***************************************************************************)
(* AXI4StreamMaster._send_string (lines 153-188), a plain function: each   *)
(* turn of its loop calls the coroutine function _driver_send, which makes *)
(* a coroutine object and runs none of its body; the object is not         *)
(* yielded, forked or kept, so no line of the bus is driven.               *)
(***************************************************************************)
RECURSIVE FrameBeats(_, _, _, _, _)
\* lines 177-188: the arguments of the _driver_send calls, in order
FrameBeats(string, strb, keep, last, sync) ==
    IF string = <<>> THEN <<>>
    ELSE LET n == BytesPerBeat
             nbytes == Min(Len(string), n)
             final == Len(string) <= n
             last2 == IF final /\ Has("TLAST") THEN 1 ELSE last
             strb2 == IF final /\ Has("TSTRB")
                      THEN Zeros(n - Len(string)) \o Ones(Len(string))
                      ELSE strb
             rest == IF final THEN <<>> ELSE SubSeq(string, n + 1, Len(string))
         IN <<[data |-> SubSeq(string, 1, nbytes), strb |-> strb2,
               keep |-> keep, last |-> last2, sync |-> sync]>>
            \o FrameBeats(rest, strb2, keep, last2, sync)

\* the payloads a test sends
Payloads == {[i \in 1..k |-> 64 + i] : k \in 0..MaxPayload}

\* the test calls _send_string(string, sync)
SendString ==
    /\ phase = "edge" /\ woken = {} /\ st_pc = "idle" /\ tcalls < MaxCalls
    /\ \E string \in Payloads, sync \in BOOLEAN :
          frame' = IF ~Has("TDATA")
                   THEN [payload |-> string, beats |-> <<>>,
                         outcome |-> "AttributeError"]
                   ELSE [payload |-> string,
                         beats |-> FrameBeats(string,
                                      IF Has("TSTRB") THEN Ones(MaskLen) ELSE NoMask,
                                      IF Has("TKEEP") THEN Ones(MaskLen) ELSE NoMask,
                                      IF Has("TLAST") THEN 0 ELSE NoLast,
                                      sync),
                         outcome |-> "returned"]
    /\ tlog' = <<>>
    /\ tacc' = NoTransfer
    /\ mrecv' = <<>>
    /\ tcalls' = tcalls + 1
    /\ UNCHANGED <<phase, woken, tprofile, tdata_len, tbus, st_pc, st_args,
                   mon_pc, notStream>>

\* the ended cycle showed a transfer: TVALID high, and TREADY when the bus
\* has it
StreamTransfer(bus) ==
    bus.TVALID = 1 /\ (Has("TREADY") => bus.TREADY = 1)

\* RisingEdge(clock) fires; the transfer or the stall the ended cycle showed
\* is noted
StreamEdge ==
    /\ phase = "ro" /\ woken = {}
    /\ phase' = "edge"
    /\ woken' = (IF st_pc \in {"sync", "ready_edge", "final"} THEN {S} ELSE {})
                \cup (IF mon_pc = "edge" THEN {M} ELSE {})
    /\ tacc' = IF StreamTransfer(tbus)
               THEN [tacc EXCEPT !.beats = Append(@, BeatOnBus(tbus))]
               ELSE IF tbus.TVALID = 1 THEN [tacc EXCEPT !.stalled = TRUE]
               ELSE tacc
    /\ UNCHANGED <<tprofile, tdata_len, tbus, st_pc, st_args, frame, tlog,
                   tcalls, monVars, notStream>>

\* every coroutine of the edge has run: the receiver drives TREADY when the
\* bus has it, the values settle and ReadOnly() fires
StreamSettle ==
    /\ phase = "edge" /\ woken = {}
    /\ \E ready \in Bit :
          /\ ~Has("TREADY") => ready = 0
          /\ tbus' = [tbus EXCEPT !.TREADY = ready]
    /\ phase' = "ro"
    /\ woken' = (IF st_pc = "ready_ro" THEN {S} ELSE {})
                \cup (IF mon_pc = "ro" THEN {M} ELSE {})
    /\ UNCHANGED <<tprofile, tdata_len, st_pc, st_args, frame, tlog, tcalls,
                   tacc, monVars, notStream>>

(***************************************************************************)
(* AXI4StreamMonitor._monitor_recv (monitors/amba.py, lines 40-56).        *)
(* Positions: "edge" at yield clkedge (52), "ro" at yield rdonly (53),     *)
(* "dead" ended by an exception.                                           *)
(***************************************************************************)
\* lines 45-49: valid()
MonitorValid(bus) ==
    IF Has("TREADY") THEN bus.TVALID = 1 /\ bus.TREADY = 1
                     ELSE bus.TVALID = 1

\* line 52 passed: on to yield rdonly (53)
MonitorEdge ==
    /\ M \in woken /\ mon_pc = "edge"
    /\ mon_pc' = "ro"
    /\ woken' = woken \ {M}
    /\ UNCHANGED <<phase, tprofile, tdata_len, tbus, st_pc, st_args, frame,
                   tlog, tcalls, tacc, mrecv, notStream>>

\* lines 54-56 at the settle point: on valid() the bytes of TDATA go to
\* _recv(); self.bus.TDATA raises AttributeError on a bus without the line
MonitorSample ==
    /\ phase = "ro" /\ M \in woken /\ mon_pc = "ro"
    /\ IF ~MonitorValid(tbus)
       THEN mon_pc' = "edge" /\ mrecv' = mrecv
       ELSE IF Has("TDATA")
       THEN mon_pc' = "edge" /\ mrecv' = Append(mrecv, tbus.TDATA)
       ELSE mon_pc' = "dead" /\ mrecv' = mrecv
    /\ woken' = woken \ {M}
    /\ UNCHANGED <<phase, tprofile, tdata_len, tbus, st_pc, st_args, frame,
                   tlog, tcalls, tacc, notStream>>

StreamNext ==
    \/ StreamSend \/ StreamDrive \/ StreamReadyPoll \/ StreamReadyRetry
    \/ StreamFinish
    \/ SendString
    \/ MonitorEdge \/ MonitorSample
    \/ StreamEdge
    \/ StreamSettle

StreamBenchInit == ClockInit /\ StreamInit /\ LiteParked /\ SlaveParked

SpecStream == StreamBenchInit /\ [][StreamNext]_vars

\* string[k*W : min((k+1)*W, N)] for k = 0 .. ceil(N/W) - 1
Chunks(string, w) ==
    [k \in 1..((Len(string) + w - 1) \div w) |->
        SubSeq(string, (k - 1) * w + 1, Min(k * w, Len(string)))]

\* C10: when _send_string has returned for a payload of N bytes on a bus of
\* W bytes, ceil(N/W) beats have been driven on the bus, beat k carrying the
\* bytes [k*W, min((k+1)*W, N)) of the payload, in order, and none for an
\* empty payload.
C10_FrameBeatsDriven ==
    frame.outcome = "returned" =>
        [k \in 1..Len(tlog) |-> tlog[k].data] = Chunks(frame.payload, BytesPerBeat)

\* the mask of a last beat: of the w bytes of the beat only the low ones that
\* a payload of n bytes fills are marked
PartialMask(n, w) ==
    LET r == IF n % w = 0 THEN w ELSE n % w
    IN Zeros(w - r) \o Ones(r)

\* C11: in the beats _send_string computes for a payload of N >= 1 bytes,
\* every beat but the last has all-ones masks and last 0, and the last beat
\* has last 1 and, on each of TSTRB and TKEEP the bus has, the mask that
\* marks only the bytes the payload fills.
C11_FrameMasks ==
    (frame.outcome = "returned" /\ frame.payload # <<>>) =>
        LET beats == frame.beats
            len == Len(frame.payload)
            width == BytesPerBeat
        IN \A k \in 1..Len(beats) :
              IF k < Len(beats)
              THEN /\ Has("TSTRB") => beats[k].strb = Ones(width)
                   /\ Has("TKEEP") => beats[k].keep = Ones(width)
                   /\ Has("TLAST") => beats[k].last = 0
              ELSE /\ Has("TSTRB") => beats[k].strb = PartialMask(len, width)
                   /\ Has("TKEEP") => beats[k].keep = PartialMask(len, width)
                   /\ Has("TLAST") => beats[k].last = 1

\* the last call of the test was a send of one beat
LastCallSend == tcalls > 0 /\ frame.outcome = "none"

\* the lines the bus has show the arguments of the send
ShowsArgs(bus, a) ==
    /\ Has("TDATA") => bus.TDATA = a.data
    /\ Has("TSTRB") => bus.TSTRB = a.strb
    /\ Has("TKEEP") => bus.TKEEP = a.keep
    /\ Has("TLAST") => bus.TLAST = a.last

\* C12: one send of a beat.  Before the edge it synchronises on TVALID is
\* low; from then on TVALID is high with the payload on the lines, through
\* every cycle that shows TREADY low, with no beat transferred; the cycle
\* that shows TREADY high (any cycle when the bus has no TREADY) transfers
\* the beat, and after the edge that ends it TVALID is low: one transferred
\* beat for the send, and with no TREADY one cycle of TVALID.
C12_OneBeatPerSend ==
    LastCallSend =>
       /\ st_pc = "sync" => tbus.TVALID = 0 /\ tacc = NoTransfer
       /\ st_pc \in {"ready_ro", "ready_edge", "final"} =>
             tbus.TVALID = 1 /\ ShowsArgs(tbus, st_args)
       /\ st_pc \in {"ready_ro", "ready_edge"} => tacc.beats = <<>>
       /\ st_pc = "final" =>
             IF S \in woken THEN tacc.beats = <<BeatOnBus(tbus)>>
                            ELSE tacc.beats = <<>>
       /\ st_pc = "idle" =>
             /\ tbus.TVALID = 0
             /\ Len(tacc.beats) = 1
             /\ ShowsArgs([TDATA |-> tacc.beats[1].data,
                           TSTRB |-> tacc.beats[1].strb,
                           TKEEP |-> tacc.beats[1].keep,
                           TLAST |-> tacc.beats[1].last], st_args)
       /\ ~Has("TREADY") => ~tacc.stalled

\* a synchronised send on a bus with TREADY has returned after a cycle that
\* showed TREADY low
C12_Witness ==
    /\ LastCallSend /\ st_pc = "idle" /\ st_args.sync
    /\ Has("TREADY") /\ tacc.stalled /\ Len(tacc.beats) = 1

\* C13: on a bus without TDATA a send with a data value and _send_string
\* fail at once and drive nothing: every line of the master keeps the value
\* of construction, no beat is driven and none is transferred.
C13_NoDataLineFails ==
    ~Has("TDATA") =>
        /\ [tbus EXCEPT !.TREADY = 0] = StreamBusInit
        /\ tlog = <<>>
        /\ tacc.beats = <<>>
        /\ frame.outcome \in {"none", "AttributeError"}

\* the last address phase the responder took had the size code 7
WriteSizeSeven == sw.burst_length > 0 /\ sw.bytes_in_beat = NoBytes
ReadSizeSeven == sr.burst_length > 0 /\ sr.bytes_in_beat = NoBytes

\* C14: after a responder has taken an address phase of size code 7 that
\* burst has no effect: the memory is as it was, no beat is consumed or
\* loaded, and WREADY (for a write) and RVALID (for a read) are not raised.
C14_SizeSevenFailsFast ==
    /\ WriteSizeSeven =>
          /\ memory = wlog.mem0
          /\ wlog.beats = <<>>
          /\ sbus.WREADY = 0
    /\ ReadSizeSeven =>
          /\ rlog.loaded = <<>>
          /\ sbus.RVALID = 0

\* C15: both responder loops run for the life of the slave: a responder
\* that has taken an address phase of size code 7 is not ended by it (from
\* "dead" no step of the coroutine follows, so it never returns to idle and
\* serves no later burst).
C15_RespondersStayActive ==
    /\ WriteSizeSeven => sw_pc # "dead"
    /\ ReadSizeSeven => sr_pc # "dead"

\* the TDATA of the beats the bus has transferred
Transferred == [k \in 1..Len(tacc.beats) |-> tacc.beats[k].data]

\* C16: the monitor hands to _recv() one element, the TDATA of the settle
\* point, for each cycle whose settle point shows TVALID (and TREADY when the
\* bus has it), in cycle order, and nothing for another cycle: after an edge
\* the elements are the TDATA of the beats transferred, and once the monitor
\* has run at a settle point they include the beat of this cycle.
C16_MonitorDelivers ==
    /\ mon_pc # "dead"
    /\ (phase = "edge" \/ M \in woken) => mrecv = Transferred
    /\ (phase = "ro" /\ M \notin woken) =>
          mrecv = IF StreamTransfer(tbus) THEN Append(Transferred, tbus.TDATA)
                                          ELSE Transferred

\* C17: the write responder consumes a beat (stores WDATA and counts it)
\* only when the edge it has just passed ended a cycle that showed WVALID
\* and WREADY both high, so not at the edge that accepts the address, when
\* WREADY has not been raised yet.
C17_ConsumeOnHandshake ==
    [][Len(wlog.beats') > Len(wlog.beats) => hs.w]_vars

\* C18: a write-response beat (a settle point with BVALID and BREADY high)
\* is taken by one write call only: no two calls have sampled the response
\* at the same settle point (position "resp_fin" lasts from the sample to
\* the next edge).
C18_OneCallPerResponse ==
    \A c1 \in WCalls, c2 \in WCalls :
        (c1 # c2 /\ mpc[c1] = "resp_fin") => mpc[c2] # "resp_fin"

\* a step of a slave responder that reads a line of the bus master: AWVALID
\* (404), WVALID (436), ARVALID (467), RREADY (500, when a beat is left)
SlaveSamples ==
    \/ /\ W \in woken /\ W \notin woken'
       /\ sw_pc \in {"aw_ro", "aw_accept", "w_edge"}
    \/ /\ R \in woken /\ R \notin woken'
       /\ \/ sr_pc = "ar_ro"
          \/ sr_pc \in {"ar_accept", "r_edge"} /\ sr.burst_count > 0

\* C19: a responder reads a valid or ready line of its partner only at a
\* settle point, never in the step that follows a clock edge.
C19_SampleAtSettle == [][SlaveSamples => phase = "ro"]_vars

\* call c waits in the queue of the lock
Queued(lock, c) == \E i \in 1..Len(lock.pending) : lock.pending[i] = c

\* the address task, the data task of call c holds its lock: it is between
\* acquire() and release(), or release() of another task has just passed the
\* lock to it
AddrOwner(c) ==
    \/ apc[c] \in AddrHolding
    \/ apc[c] = "lock" /\ ~Queued(write_address_busy, c)
DataOwner(c) ==
    \/ dpc[c] \in DataHolding
    \/ dpc[c] = "lock" /\ ~Queued(write_data_busy, c)

\* C20: a write lock is held exactly while a phase task is between its
\* acquire() and its release(), and it is free only with the task's valid
\* line low; with no call in its address or data phase both write locks are
\* free; a call that ended with AXIProtocolError has both its tasks ended,
\* holding nothing; the read-address lock is free as well.
C20_LocksReleased ==
    /\ write_address_busy.locked <=> \E c \in WCalls : AddrOwner(c)
    /\ write_data_busy.locked <=> \E c \in WCalls : DataOwner(c)
    /\ ~write_address_busy.locked => lbus.AWVALID = 0
    /\ ~write_data_busy.locked => lbus.WVALID = 0
    /\ (\A c \in WCalls : apc[c] \in {"none", "finished"}) =>
          write_address_busy = FreeLock
    /\ (\A c \in WCalls : dpc[c] \in {"none", "finished"}) =>
          write_data_busy = FreeLock
    /\ \A c \in WCalls :
          wret[c].kind = "error" => apc[c] = "finished" /\ dpc[c] = "finished"
    /\ read_address_busy = FreeLock

\* a call has ended with AXIProtocolError, every lock is free, and the other
\* call has taken the address lock after it
C20_Witness ==
    \E c \in WCalls, d \in WCalls :
        /\ c # d
        /\ wret[c].kind = "error"
        /\ mpc[d] = "join_addr" /\ apc[d] \in AddrHolding
        /\ write_data_busy.locked

(***************************************************************************)
(* write() under the scheduler: every coroutine that was resumed runs, and *)
(* the clock keeps ticking, so a step is taken whenever one is possible.   *)
(***************************************************************************)
SpecWriteLive == MasterInit /\ [][WriteNext]_vars /\ WF_vars(WriteNext)

\* call c has been made and has not returned or raised
InFlight(c) == mpc[c] \notin {"idle", "done"}

\* the partner answers: an address task that keeps AWVALID high, a data
\* task that keeps WVALID high and a call that stays in its response wait
\* each meet, again and again, a settle point with AWREADY, WREADY, BVALID
\* high
PartnerAnswers ==
    /\ []<>(lbus.AWVALID = 0 \/ (phase = "ro" /\ lbus.AWREADY = 1))
    /\ []<>(lbus.WVALID = 0 \/ (phase = "ro" /\ lbus.WREADY = 1))
    /\ []<>(\/ \A c \in WCalls : mpc[c] \notin {"resp_ro", "resp_edge"}
            \/ phase = "ro" /\ lbus.BVALID = 1)

\* each wait of a write call is left only by the event it waits for, seen
\* at a settle point
WaitsLeftByEvent ==
    \A c \in WCalls :
        /\ (apc[c] # "fin" /\ apc'[c] = "fin") =>
              phase = "ro" /\ lbus.AWREADY = 1
        /\ (dpc[c] # "fin" /\ dpc'[c] = "fin") =>
              phase = "ro" /\ lbus.WREADY = 1
        /\ (apc[c] # "finished" /\ apc'[c] = "finished") => apc[c] = "fin"
        /\ (dpc[c] # "finished" /\ dpc'[c] = "finished") => dpc[c] = "fin"
        /\ (mpc[c] # "resp_fin" /\ mpc'[c] = "resp_fin") =>
              /\ phase = "ro" /\ lbus.BVALID = 1 /\ lbus.BREADY = 1
              /\ apc[c] = "finished" /\ dpc[c] = "finished"
        /\ (mpc[c] # "done" /\ mpc'[c] = "done") => mpc[c] = "resp_fin"

\* the address task of call c is in its wait for AWREADY, lock in hand
AddrWaiting(c) == apc[c] \in AddrHolding \ {"fin"}

\* a step from a state that shows AWREADY low leaves every address task
\* that waits for it waiting, its call open and the lock taken, and every
\* other call's address task in the queue of the lock; so with AWREADY
\* never asserted this lasts forever
BlockedWithoutAwready ==
    \A c \in WCalls :
        (AddrWaiting(c) /\ lbus.AWREADY = 0) =>
            /\ AddrWaiting(c)' /\ InFlight(c)'
            /\ write_address_busy'.locked
            /\ \A d \in WCalls \ {c} :
                  apc[d] = "lock" =>
                     /\ apc'[d] = "lock" /\ mpc'[d] = "join_addr"
                     /\ Queued(write_address_busy', d)

\* a call that has ended or has its response has both its tasks ended; a
\* call whose tasks are forked while another call's task has the address
\* lock waits in the queue of the lock, in c_addr.join()
CompletionOrder ==
    \A c \in WCalls :
        /\ mpc[c] \in {"resp_fin", "done"} =>
              /\ apc[c] = "finished" /\ dpc[c] = "finished"
              /\ wresult[c] # NotSampled
        /\ apc[c] \in AddrHolding =>
              /\ write_address_busy.locked /\ InFlight(c)
              /\ \A d \in WCalls \ {c} :
                    apc[d] \notin {"none", "finished"} =>
                       /\ apc[d] = "lock" /\ mpc[d] = "join_addr"
                       /\ Queued(write_address_busy, d)

\* C21: a write call has no timeout and no cancellation.  Its address task
\* goes on only from a settle point that shows AWREADY, its data task only
\* from one that shows WREADY, and the call ends only after both tasks have
\* ended and a settle point has then shown BVALID with BREADY; while
\* AWREADY is not asserted the call stays blocked holding the write-address
\* lock and every later call stays in the queue of that lock, without end
\* if AWREADY is never asserted; and under a partner that answers each
\* pending valid and each awaited response, every call that was made
\* completes.
C21_NoTimeout ==
    /\ [][WaitsLeftByEvent /\ BlockedWithoutAwready]_vars
    /\ []CompletionOrder
    /\ PartnerAnswers => \A c \in WCalls : InFlight(c) ~> (mpc[c] = "done")

\* a call has sampled AWREADY low and holds the address lock with its data
\* phase over, while the other call, its data phase over as well, waits in
\* the queue of the lock
C21_Witness ==
    \E c \in WCalls, d \in WCalls :
        /\ c # d
        /\ apc[c] = "edge" /\ dpc[c] = "finished" /\ mpc[c] = "join_addr"
        /\ apc[d] = "lock" /\ Queued(write_address_busy, d)
        /\ dpc[d] = "finished" /\ mpc[d] = "join_addr"

=============================================================================
